---- MODULE Spec2Model ----
(***************************************************************************)
(* Smart-Invoice: the Express routes of server/routes.ts over the          *)
(* Firestore storage of server/storage.ts.                                 *)
(*                                                                         *)
(* The state is the content of the Firestore collections (users, clients,  *)
(* invoices, the items subcollection of each invoice), the server clock,   *)
(* the last HTTP response and the requests that are between two awaits.    *)
(* Every route handler is one action, and for the concurrency claims the   *)
(* invoice handlers are also given cut at their awaits; the storage        *)
(* methods that no route calls (updateInvoiceStatus, deleteInvoice) are    *)
(* actions of their own. Money is integer cents, quantities are            *)
(* hundredths. The browser side is the AuthProvider of the client, the     *)
(* register form and the requests of the invoices page.                    *)
(***************************************************************************)
EXTENDS Integers, Sequences, FiniteSets, TLC

VARIABLES users, clients, invoices, items, nextClientId, nextInvoiceId, now, response,
          inflight, capacity, accounts, currentUser, authContext, callbacks

vars == <<users, clients, invoices, items, nextClientId, nextInvoiceId, now, response,
          inflight, capacity, accounts, currentUser, authContext, callbacks>>

db == <<users, clients, invoices, items, nextClientId, nextInvoiceId>>

(* The browser and the identity provider: the accounts of the provider     *)
(* (the identities that have signed up), auth.currentUser, the value of    *)
(* the AuthContext of client/src/hooks/use-auth.tsx, and the identities of *)
(* the onAuthStateChange callbacks that await their /api/users/me fetch.   *)
browser == <<accounts, currentUser, authContext, callbacks>>

----------------------------------------------------------------------------
(* Bounds *)

MaxUsers == 2
MaxClients == 1
MaxInvoices == 1
MaxItems == 2
MaxTime == 2
MaxListed == 2

UserIds == 1..MaxUsers
ClientIds == 1..MaxClients
InvoiceIds == 1..MaxInvoices
Times == 0..MaxTime

(* An optional value: <<>> when missing (undefined or null), <<v>> otherwise. *)
None == <<>>
Some(v) == <<v>>
Opt(S) == {None} \cup {Some(v) : v \in S}

(* capacity: how many clients and invoices a run creates at most, the cap  *)
(* on the two id counters; fixed by the initial state of a specification.  *)

(* Bearer tokens: token u verifies to the firebaseUid of user u, token 0    *)
(* is a missing, malformed or rejected credential.                          *)
NoToken == 0

(* The id of a document that was never created. *)
NoSuchId == 0

----------------------------------------------------------------------------
(* Pure helpers *)

RECURSIVE SumSeq(_)
SumSeq(s) == IF s = <<>> THEN 0 ELSE Head(s) + SumSeq(Tail(s))

(* All enumerations of a finite set as a sequence without repetition: the  *)
(* order of a Firestore query that has no orderBy follows the random       *)
(* document ids.                                                           *)
Perms(S) ==
    {p \in [1..Cardinality(S) -> S] : \A i, j \in 1..Cardinality(S) : p[i] = p[j] => i = j}

Take(s, n) == SubSeq(s, 1, IF n < Len(s) THEN n ELSE Len(s))

(* Object spread { ...stored, ...patch } over the optional fields of a     *)
(* partial body: a field that is present in the patch replaces the stored  *)
(* one.                                                                    *)
Patched(stored, field) == IF field = None THEN stored ELSE field[1]

----------------------------------------------------------------------------
(* Documents *)

validStatuses == {"pending", "paid", "overdue"}

(* An invoice document as createInvoice writes it. paidAt is None for null. *)
InvoiceDoc(id, userId, clientId, status, subtotal, taxRate, taxAmount, total, paidAt, at) ==
    [id |-> id, userId |-> userId, clientId |-> clientId, status |-> status,
     subtotal |-> subtotal, taxRate |-> taxRate, taxAmount |-> taxAmount,
     total |-> total, paidAt |-> paidAt, createdAt |-> at, updatedAt |-> at]

(* The body of a client request: the tenant id the caller may put there.   *)
ClientBody(userIds) == [userId : userIds]

(* The "invoice" object of a request body; every field may be missing.     *)
InvoiceBody(userIds, clientIds, statuses, subtotals, taxRates, taxAmounts, totals, paidAts) ==
    [userId : userIds, clientId : clientIds, status : statuses, subtotal : subtotals,
     taxRate : taxRates, taxAmount : taxAmounts, total : totals, paidAt : paidAts]

(* One line of the "items" array of a request body.                        *)
ItemBody(quantities, rates, amounts) ==
    [quantity : quantities, rate : rates, amount : amounts]

SeqsUpTo(S, n) == UNION {[1..k -> S] : k \in 0..n}

----------------------------------------------------------------------------
(* Responses: the route, the tenant authenticateUser resolved (0 when it   *)
(* resolved none), the :id parameter, the HTTP status and the invoices and *)
(* clients of the JSON body. An invoice of a body is a view: the document, *)
(* the joined client (None for null) and the items array. clientStats is   *)
(* the array of GET /api/clients in its order, metrics the object of GET   *)
(* /api/dashboard/metrics. An error response carries the message of what   *)
(* was thrown.                                                             *)

ReplyWith(route, tenant, id, status, invs, cls, stats, metrics) ==
    response' = [route |-> route, tenant |-> tenant, id |-> id, status |-> status,
                 message |-> "", invoices |-> invs, clients |-> cls,
                 clientStats |-> stats, metrics |-> metrics]

Reply(route, tenant, id, status, invs, cls) ==
    ReplyWith(route, tenant, id, status, invs, cls, <<>>, None)

Fail(route, tenant, id, status, message) ==
    response' = [route |-> route, tenant |-> tenant, id |-> id, status |-> status,
                 message |-> message, invoices |-> <<>>, clients |-> {},
                 clientStats |-> <<>>, metrics |-> None]

NoResponse ==
    [route |-> "none", tenant |-> 0, id |-> NoSuchId, status |-> 0,
     message |-> "", invoices |-> <<>>, clients |-> {},
     clientStats |-> <<>>, metrics |-> None]

(* Every Client record a response carries, alone or joined to an invoice.  *)
ClientsIn(r) ==
    r.clients \cup {r.invoices[i].client[1] :
                       i \in {j \in 1..Len(r.invoices) : r.invoices[j].client # None}}

----------------------------------------------------------------------------
(* authenticateUser: the users whose firebaseUid the verified token names; *)
(* the query has limit(1) and no order.                                    *)

AuthUsersOrAnyone(tok) ==
    IF tok = NoToken THEN DOMAIN users
    ELSE {u \in DOMAIN users : users[u].firebaseUid = tok}
AuthUsers(tok) ==
    IF tok = NoToken THEN {}
    ELSE {u \in DOMAIN users : users[u].firebaseUid = tok}

Unauthenticated(route) ==
    /\ Fail(route, 0, NoSuchId, 401, "Authentication required")
    /\ UNCHANGED <<db, now, inflight, capacity, browser>>

----------------------------------------------------------------------------
(* Storage reads *)

getClient(id) == IF id \in DOMAIN clients THEN Some(clients[id]) ELSE None

(* getInvoice: the document, its client if that document exists, and the   *)
(* items subcollection of the invoice.                                     *)
getInvoice(id) ==
    IF id \in DOMAIN invoices
    THEN Some([inv |-> invoices[id],
               client |-> getClient(invoices[id].clientId),
               items |-> items[id]])
    ELSE None

(* The ownership check of the client routes: !client || client.userId !== req.user.id *)
OwnsClientAnyone(user, id) == id \in DOMAIN clients
OwnsClient(user, id) == id \in DOMAIN clients /\ clients[id].userId = user

(* The ownership check of the invoice routes: !invoice || invoice.userId !== req.user.id *)
OwnsInvoiceAnyone(user, id) == id \in DOMAIN invoices
OwnsInvoice(user, id) == id \in DOMAIN invoices /\ invoices[id].userId = user

----------------------------------------------------------------------------
(* User routes *)

(* The body of a user request: the two fields that identify a user; the    *)
(* other fields of userSchema are plain values.                            *)
UserBody(emails, firebaseUids) == [email : emails, firebaseUid : firebaseUids]

(* userSchema.parse *)
UserSchemaOk(body) == body.email # None /\ body.firebaseUid # None

(* createUser: a fresh id, doc(id).set(userData); no query precedes the    *)
(* write.                                                                  *)
createUser(body) ==
    Append(users, [id |-> Len(users) + 1, firebaseUid |-> body.firebaseUid[1],
                   email |-> body.email[1]])

(* POST /api/users: no authenticateUser on this route.                     *)
PostUsers(body) ==
    IF ~UserSchemaOk(body)
    THEN /\ Fail("POST /api/users", 0, NoSuchId, 400, "validation")
         /\ UNCHANGED <<db, now, inflight, capacity, browser>>
    ELSE /\ Len(users) < MaxUsers
         /\ users' = createUser(body)
         /\ Reply("POST /api/users", 0, Len(users) + 1, 200, <<>>, {})
         /\ UNCHANGED <<clients, invoices, items, nextClientId, nextInvoiceId, now, inflight, capacity, browser>>

(* GET /api/users/me *)
GetUsersMe(tok) ==
    IF AuthUsers(tok) = {} THEN Unauthenticated("GET /api/users/me")
    ELSE \E user \in AuthUsers(tok) :
        /\ Reply("GET /api/users/me", user, user, 200, <<>>, {})
        /\ UNCHANGED <<db, now, inflight, capacity, browser>>

(* updateUser: doc.update({ ...updates, updatedAt }); the partial schema   *)
(* keeps email and firebaseUid when the body has them.                     *)
updateUser(id, updates) ==
    [users EXCEPT ![id].email = Patched(@, updates.email),
                  ![id].firebaseUid = Patched(@, updates.firebaseUid)]

(* PUT /api/users/me *)
PutUsersMe(tok, body) ==
    IF AuthUsers(tok) = {} THEN Unauthenticated("PUT /api/users/me")
    ELSE \E user \in AuthUsers(tok) :
        /\ users' = updateUser(user, body)
        /\ Reply("PUT /api/users/me", user, user, 200, <<>>, {})
        /\ UNCHANGED <<clients, invoices, items, nextClientId, nextInvoiceId, now, inflight, capacity, browser>>

----------------------------------------------------------------------------
(* Client routes *)

(* POST /api/clients: userId of the body is overwritten with req.user.id,  *)
(* createClient stores the document under a fresh id.                      *)
PostClients(tok, body) ==
    IF AuthUsers(tok) = {} THEN Unauthenticated("POST /api/clients")
    ELSE \E user \in AuthUsers(tok) :
        LET id == nextClientId
            clientData == [id |-> id, userId |-> user, createdAt |-> now]
        IN  /\ nextClientId <= capacity.clients
            /\ clients' = clients @@ (id :> clientData)
            /\ nextClientId' = id + 1
            /\ Reply("POST /api/clients", user, id, 200, <<>>, {clientData})
            /\ UNCHANGED <<users, invoices, items, nextInvoiceId, now, inflight, capacity, browser>>

(* The comparator of clients.sort in getClientsByUserId: the difference of *)
(* new Date(createdAt).getTime() of the two clients. createdAt is read     *)
(* back from Firestore as a Timestamp, which new Date() cannot convert:    *)
(* both getTime() are NaN, and sort takes the NaN difference as 0.         *)
CompareCreatedAt(a, b) == 0 * (clients[a].createdAt - clients[b].createdAt)

(* clients.sort with that comparator. Array.prototype.sort is stable: the  *)
(* arrangement of order in which no element precedes one the comparator    *)
(* puts before it, elements the comparator does not separate keeping their *)
(* places.                                                                 *)
Sorted(order) ==
    CHOOSE p \in Perms({order[k] : k \in 1..Len(order)}) :
        \A a, b \in 1..Len(order) :
            a < b => \/ CompareCreatedAt(p[a], p[b]) < 0
                     \/ /\ CompareCreatedAt(p[a], p[b]) = 0
                        /\ \E x, y \in 1..Len(order) :
                              x < y /\ order[x] = p[a] /\ order[y] = p[b]

(* totalAmount of getClientsByUserId: the sum of Number(invoice.total) of  *)
(* the invoices of ids.                                                    *)
RECURSIVE SumOfInvoices(_)
SumOfInvoices(ids) ==
    IF ids = {} THEN 0
    ELSE LET i == CHOOSE j \in ids : TRUE
         IN  invoices[i].total + SumOfInvoices(ids \ {i})

(* One ClientWithStats: the invoices where clientId == client.id, of any   *)
(* tenant, give invoiceCount and totalAmount.                              *)
ClientWithStats(c) ==
    LET referring == {i \in DOMAIN invoices : invoices[i].clientId = c}
    IN  [client |-> clients[c], invoiceCount |-> Cardinality(referring),
         totalAmount |-> SumOfInvoices(referring)]

(* getClientsByUserId: the clients where userId == user in the order of    *)
(* the snapshot, each with its statistics, then sorted.                    *)
getClientsByUserId(user) ==
    LET mine == {c \in DOMAIN clients : clients[c].userId = user}
    IN  {[k \in 1..Len(snapshot) |-> ClientWithStats(Sorted(snapshot)[k])] :
            snapshot \in Perms(mine)}

(* GET /api/clients *)
GetClients(tok) ==
    IF AuthUsers(tok) = {} THEN Unauthenticated("GET /api/clients")
    ELSE \E user \in AuthUsers(tok) :
         \E stats \in getClientsByUserId(user) :
            /\ ReplyWith("GET /api/clients", user, NoSuchId, 200, <<>>,
                         {stats[k].client : k \in 1..Len(stats)}, stats, None)
            /\ UNCHANGED <<db, now, inflight, capacity, browser>>

(* GET /api/clients/:id *)
GetClient(tok, id) ==
    IF AuthUsers(tok) = {} THEN Unauthenticated("GET /api/clients/:id")
    ELSE \E user \in AuthUsers(tok) :
        /\ IF ~OwnsClient(user, id)
           THEN Fail("GET /api/clients/:id", user, id, 404, "Client not found")
           ELSE Reply("GET /api/clients/:id", user, id, 200, <<>>, {clients[id]})
        /\ UNCHANGED <<db, now, inflight, capacity, browser>>

(* updateClient: doc.update({ ...updates, updatedAt }); the partial schema *)
(* keeps userId when the body has it.                                      *)
updateClient(id, updates) ==
    [clients EXCEPT ![id].userId = Patched(@, updates.userId)]

(* PUT /api/clients/:id *)
PutClient(tok, id, body) ==
    IF AuthUsers(tok) = {} THEN Unauthenticated("PUT /api/clients/:id")
    ELSE \E user \in AuthUsers(tok) :
        IF ~OwnsClient(user, id)
        THEN /\ Fail("PUT /api/clients/:id", user, id, 404, "Client not found")
             /\ UNCHANGED <<db, now, inflight, capacity, browser>>
        ELSE /\ clients' = updateClient(id, body)
             /\ Reply("PUT /api/clients/:id", user, id, 200, <<>>, {clients'[id]})
             /\ UNCHANGED <<users, invoices, items, nextClientId, nextInvoiceId, now, inflight, capacity, browser>>

(* deleteClient: deletes the client document, and nothing else.            *)
deleteClient(id) == [c \in DOMAIN clients \ {id} |-> clients[c]]

(* DELETE /api/clients/:id *)
DeleteClient(tok, id) ==
    IF AuthUsers(tok) = {} THEN Unauthenticated("DELETE /api/clients/:id")
    ELSE \E user \in AuthUsers(tok) :
        IF ~OwnsClient(user, id)
        THEN /\ Fail("DELETE /api/clients/:id", user, id, 404, "Client not found")
             /\ UNCHANGED <<db, now, inflight, capacity, browser>>
        ELSE /\ clients' = deleteClient(id)
             /\ Reply("DELETE /api/clients/:id", user, id, 200, <<>>, {})
             /\ UNCHANGED <<users, invoices, items, nextClientId, nextInvoiceId, now, inflight, capacity, browser>>

----------------------------------------------------------------------------
(* Invoice routes *)

(* invoiceSchema.parse of the body with userId added by the route: the     *)
(* required fields are there and status, if given, is one of the enum.     *)
InvoiceSchemaOk(body) ==
    /\ body.clientId # None /\ body.subtotal # None /\ body.taxRate # None
    /\ body.taxAmount # None /\ body.total # None
    /\ (body.status = None \/ body.status[1] \in validStatuses)

(* invoiceSchema.partial().parse *)
PartialInvoiceSchemaOk(body) ==
    body.status = None \/ body.status[1] \in validStatuses

(* The document POST /api/invoices hands to createInvoice and createInvoice *)
(* writes: the tenant is req.user.id, the money fields are the strings of  *)
(* the body, status defaults to pending and paidAt to null.                *)
createInvoiceData(id, user, body) ==
    InvoiceDoc(id, user, body.clientId[1],
               IF body.status = None THEN "pending" ELSE body.status[1],
               body.subtotal[1], body.taxRate[1], body.taxAmount[1], body.total[1],
               IF body.paidAt = None THEN None ELSE body.paidAt[1],
               now)

(* POST /api/invoices with storage.createInvoice: the invoice document is  *)
(* set, then the item batch is committed (commitOk: the commit succeeded), *)
(* then the client is read; a throw at any point answers 400.              *)
PostInvoices(tok, body, its, commitOk) ==
    IF AuthUsers(tok) = {} THEN Unauthenticated("POST /api/invoices")
    ELSE \E user \in AuthUsers(tok) :
        IF its = None \/ ~InvoiceSchemaOk(body)
        THEN /\ Fail("POST /api/invoices", user, NoSuchId, 400,
                     IF its = None THEN "Missing invoice or items data." ELSE "validation")
             /\ UNCHANGED <<db, now, inflight, capacity, browser>>
        ELSE LET id == nextInvoiceId
                 invoiceData == createInvoiceData(id, user, body)
                 client == getClient(invoiceData.clientId)
             IN  /\ nextInvoiceId <= capacity.invoices
                 /\ invoices' = invoices @@ (id :> invoiceData)
                 /\ nextInvoiceId' = id + 1
                 /\ items' = IF commitOk THEN [items EXCEPT ![id] = its[1]] ELSE items
                 /\ IF commitOk /\ client # None
                    THEN Reply("POST /api/invoices", user, id, 200,
                               <<[inv |-> invoiceData, client |-> client, items |-> its[1]]>>, {})
                    ELSE Fail("POST /api/invoices", user, id, 400,
                              IF commitOk THEN "Client not found" ELSE "commit failed")
                 /\ UNCHANGED <<users, clients, nextClientId, now, inflight, capacity, browser>>

(* GET /api/invoices/:id *)
GetInvoice(tok, id) ==
    IF AuthUsers(tok) = {} THEN Unauthenticated("GET /api/invoices/:id")
    ELSE \E user \in AuthUsers(tok) :
        /\ IF ~OwnsInvoice(user, id)
           THEN Fail("GET /api/invoices/:id", user, id, 404, "Invoice not found")
           ELSE Reply("GET /api/invoices/:id", user, id, 200, getInvoice(id), {})
        /\ UNCHANGED <<db, now, inflight, capacity, browser>>

(* getInvoicesByUserId: where userId == user, and where status == filter   *)
(* when the filter is a non-empty string; each with its client, items: []. *)
getInvoicesByUserId(user, status) ==
    {i \in DOMAIN invoices :
        /\ invoices[i].userId = user
        /\ (status # None => invoices[i].status = status[1])}

ListView(id) ==
    [inv |-> invoices[id], client |-> getClient(invoices[id].clientId), items |-> <<>>]

(* GET /api/invoices?status= *)
GetInvoices(tok, status) ==
    IF AuthUsers(tok) = {} THEN Unauthenticated("GET /api/invoices")
    ELSE \E user \in AuthUsers(tok) :
         \E order \in Perms(getInvoicesByUserId(user, status)) :
            /\ Reply("GET /api/invoices", user, NoSuchId, 200,
                     [k \in 1..Len(order) |-> ListView(order[k])], {})
            /\ UNCHANGED <<db, now, inflight, capacity, browser>>

(* The query of the invoices page (client/src/pages/invoices.tsx): the     *)
(* status parameter is appended unless the selected filter is "all".       *)
InvoicesQuery(tok, statusFilter) ==
    GetInvoices(tok, IF statusFilter # "all" THEN Some(statusFilter) ELSE None)

(* updateInvoice: doc.update({ ...updates, updatedAt: now }); the partial  *)
(* schema keeps every field of the body, userId included.                  *)
updateInvoice(id, updates) ==
    [invoices EXCEPT
        ![id].userId = Patched(@, updates.userId),
        ![id].clientId = Patched(@, updates.clientId),
        ![id].status = Patched(@, updates.status),
        ![id].subtotal = Patched(@, updates.subtotal),
        ![id].taxRate = Patched(@, updates.taxRate),
        ![id].taxAmount = Patched(@, updates.taxAmount),
        ![id].total = Patched(@, updates.total),
        ![id].paidAt = Patched(@, updates.paidAt),
        ![id].updatedAt = now]

(* replaceInvoiceItems: one batch deletes the listed item documents and    *)
(* sets the new ones; the invoice document is not written.                 *)
replaceInvoiceItems(id, its) == [items EXCEPT ![id] = its]

(* PUT /api/invoices/:id: updateInvoice, then replaceInvoiceItems when the *)
(* body has an items array (commitOk: its batch commit succeeded).         *)
PutInvoice(tok, id, body, its, commitOk) ==
    IF AuthUsers(tok) = {} THEN Unauthenticated("PUT /api/invoices/:id")
    ELSE \E user \in AuthUsers(tok) :
        IF ~OwnsInvoice(user, id)
        THEN /\ Fail("PUT /api/invoices/:id", user, id, 404, "Invoice not found")
             /\ UNCHANGED <<db, now, inflight, capacity, browser>>
        ELSE IF ~PartialInvoiceSchemaOk(body)
        THEN /\ Fail("PUT /api/invoices/:id", user, id, 400, "validation")
             /\ UNCHANGED <<db, now, inflight, capacity, browser>>
        ELSE /\ invoices' = updateInvoice(id, body)
             /\ items' = IF its # None /\ commitOk THEN replaceInvoiceItems(id, its[1]) ELSE items
             /\ IF its # None /\ ~commitOk
                THEN Fail("PUT /api/invoices/:id", user, id, 400, "commit failed")
                ELSE Reply("PUT /api/invoices/:id", user, id, 200,
                           <<[inv |-> invoices'[id], client |-> None, items |-> <<>>]>>, {})
             /\ UNCHANGED <<users, clients, nextClientId, nextInvoiceId, now, inflight, capacity, browser>>

DefaultRecentLimit == 5

(* getRecentInvoices: where userId == user, orderBy createdAt desc, limit; *)
(* the items are read from the top-level collection "invoiceItems", which  *)
(* nothing writes; an invoice whose client document is gone is dropped.    *)
getRecentInvoices(user, limit) ==
    LET mine == {i \in DOMAIN invoices : invoices[i].userId = user}
        orders == {p \in Perms(mine) : \A a, b \in 1..Len(p) :
                      a < b => invoices[p[a]].createdAt >= invoices[p[b]].createdAt}
        HasClient(i) == invoices[i].clientId \in DOMAIN clients
    IN  {SelectSeq(Take(p, limit), HasClient) : p \in orders}

(* parseInt(req.query.limit) || 5: a missing, unparsable or zero limit is  *)
(* the default.                                                            *)
ParsedLimit(limit) ==
    IF limit = None THEN DefaultRecentLimit
    ELSE IF limit[1] = 0 THEN DefaultRecentLimit ELSE limit[1]

(* GET /api/dashboard/recent-invoices?limit= *)
GetRecentInvoices(tok, limit) ==
    IF AuthUsers(tok) = {} THEN Unauthenticated("GET /api/dashboard/recent-invoices")
    ELSE \E user \in AuthUsers(tok) :
         \E order \in getRecentInvoices(user, ParsedLimit(limit)) :
            /\ Reply("GET /api/dashboard/recent-invoices", user, NoSuchId, 200,
                     [k \in 1..Len(order) |-> ListView(order[k])], {})
            /\ UNCHANGED <<db, now, inflight, capacity, browser>>

(* The running sum of invoicesSnapshot.forEach: parseFloat(invoice.total)  *)
(* of every invoice of ids whose status is status. The totals are strings  *)
(* of cents, which parseFloat reads and toFixed(2) writes exactly.         *)
RECURSIVE SumOfTotals(_, _)
SumOfTotals(ids, status) ==
    IF ids = {} THEN 0
    ELSE LET i == CHOOSE j \in ids : TRUE
         IN  (IF invoices[i].status = status THEN invoices[i].total ELSE 0)
             + SumOfTotals(ids \ {i}, status)

(* getDashboardMetrics: the invoices where userId == user are counted, the *)
(* paid ones add to totalRevenue, the pending ones to pendingAmount; the   *)
(* clients where userId == user are counted. (The prevMonth fields, which  *)
(* compare createdAt with the calendar month, are left out.)               *)
getDashboardMetricsAnyStatus(user) ==
    LET mine == {i \in DOMAIN invoices : invoices[i].userId = user}
    IN  [totalInvoices |-> Cardinality(mine),
         pendingAmount |-> SumOfTotals(mine, "pending") + SumOfTotals(mine, "overdue"),
         totalRevenue |-> SumOfTotals(mine, "paid"),
         totalClients |-> Cardinality({c \in DOMAIN clients : clients[c].userId = user})]
getDashboardMetrics(user) ==
    LET mine == {i \in DOMAIN invoices : invoices[i].userId = user}
    IN  [totalInvoices |-> Cardinality(mine),
         pendingAmount |-> SumOfTotals(mine, "pending"),
         totalRevenue |-> SumOfTotals(mine, "paid"),
         totalClients |-> Cardinality({c \in DOMAIN clients : clients[c].userId = user})]

(* GET /api/dashboard/metrics *)
GetDashboardMetrics(tok) ==
    IF AuthUsers(tok) = {} THEN Unauthenticated("GET /api/dashboard/metrics")
    ELSE \E user \in AuthUsers(tok) :
        /\ ReplyWith("GET /api/dashboard/metrics", user, NoSuchId, 200, <<>>, {},
                     <<>>, Some(getDashboardMetrics(user)))
        /\ UNCHANGED <<db, now, inflight, capacity, browser>>

----------------------------------------------------------------------------
(* Requests of the invoices page that match no route *)

(* What a request gets that matches none of the routes registerRoutes      *)
(* registers: the 404 of Express, or the page of a catch-all handler       *)
(* installed after the routes. No handler of routes.ts runs for it.        *)
UnroutedStatuses == {404, 200}

Unrouted(route, id) ==
    /\ \E status \in UnroutedStatuses :
          response' = [NoResponse EXCEPT !.route = route, !.id = id, !.status = status]
    /\ UNCHANGED <<db, now, inflight, capacity, browser>>

(* updateStatusMutation of the invoices page: apiRequest("PATCH",          *)
(* `/api/invoices/${invoiceId}/status`, { status }). registerRoutes has no *)
(* app.patch. The page shows the button on a listed pending invoice.       *)
updateStatusMutation(invoiceId, status) ==
    /\ invoiceId \in DOMAIN invoices
    /\ invoices[invoiceId].status = "pending"
    /\ Unrouted("PATCH /api/invoices/:id/status", invoiceId)

(* deleteInvoiceMutation of the invoices page: apiRequest("DELETE",        *)
(* `/api/invoices/${invoiceId}`). The only app.delete of registerRoutes is *)
(* /api/clients/:id. The page shows the button on every listed invoice.    *)
deleteInvoiceMutation(invoiceId) ==
    /\ invoiceId \in DOMAIN invoices
    /\ Unrouted("DELETE /api/invoices/:id", invoiceId)

----------------------------------------------------------------------------
(* The browser: AuthProvider (client/src/hooks/use-auth.tsx), the sign-in  *)
(* functions of client/src/lib/auth.ts and the register form of AuthPage   *)
(* (client/src/pages/auth.tsx)                                             *)

MaxCallbacks == 3

(* The callback AuthProvider gives onAuthStateChange, up to its await:     *)
(* setFirebaseUser(firebaseUser); with a user the fetch of /api/users/me   *)
(* is started and the callback waits for it, without one setUser(null) and *)
(* setLoading(false) end it.                                               *)
onAuthStateChange(firebaseUser) ==
    IF firebaseUser # None
    THEN /\ Len(callbacks) < MaxCallbacks
         /\ authContext' = [authContext EXCEPT !.firebaseUser = firebaseUser]
         /\ callbacks' = Append(callbacks, firebaseUser[1])
    ELSE /\ authContext' = [firebaseUser |-> None, user |-> None, loading |-> FALSE]
         /\ callbacks' = callbacks

(* The first auth-state event after the page has loaded with nobody signed *)
(* in.                                                                     *)
AuthStateRestored ==
    /\ authContext.loading /\ currentUser = None /\ callbacks = <<>>
    /\ onAuthStateChange(None)
    /\ UNCHANGED <<db, now, response, inflight, capacity, accounts, currentUser>>

(* signIn: signInWithEmailAndPassword of an account makes it the current   *)
(* user (also when another account was signed in) and the auth state       *)
(* changes.                                                                *)
signIn(identity) ==
    /\ identity \in accounts
    /\ currentUser # Some(identity)
    /\ currentUser' = Some(identity)
    /\ onAuthStateChange(Some(identity))
    /\ UNCHANGED <<db, now, response, inflight, capacity, accounts>>

(* logOut: signOut(auth). *)
logOut ==
    /\ currentUser # None
    /\ currentUser' = None
    /\ onAuthStateChange(None)
    /\ UNCHANGED <<db, now, response, inflight, capacity, accounts>>

(* The rest of the callback that is k-th in callbacks: its GET             *)
(* /api/users/me is answered, 200 with the user of the token gives         *)
(* setUser(userData), 401 gives setUser(null); then setLoading(false).     *)
(* The callback looks at nothing that tells it whether its firebaseUser is *)
(* still the current one.                                                  *)
UsersMeFetched(k) ==
    /\ k \in 1..Len(callbacks)
    /\ IF AuthUsers(callbacks[k]) = {}
       THEN /\ Fail("GET /api/users/me", 0, NoSuchId, 401, "Authentication required")
            /\ authContext' = [authContext EXCEPT !.user = None, !.loading = FALSE]
       ELSE \E u \in AuthUsers(callbacks[k]) :
            /\ Reply("GET /api/users/me", u, u, 200, <<>>, {})
            /\ authContext' = [authContext EXCEPT !.user = Some(users[u]), !.loading = FALSE]
    /\ callbacks' = [j \in 1..(Len(callbacks) - 1) |->
                        IF j < k THEN callbacks[j] ELSE callbacks[j + 1]]
    /\ UNCHANGED <<db, now, inflight, capacity, accounts, currentUser>>

(* handleSubmit of AuthPage in register mode, shown while firebaseUser is  *)
(* null. signUp throws when the email has an account; otherwise the        *)
(* account is created and signed in, and POST /api/users is sent with its  *)
(* uid. When that request fails (delivered is FALSE) the catch shows the   *)
(* error, and nothing is done about the account.                           *)
handleSubmit(identity, delivered) ==
    /\ authContext.firebaseUser = None
    /\ IF identity \in accounts
       THEN UNCHANGED vars
       ELSE /\ accounts' = accounts \cup {identity}
            /\ currentUser' = Some(identity)
            /\ onAuthStateChange(Some(identity))
            /\ IF delivered
               THEN /\ Len(users) < MaxUsers
                    /\ users' = createUser([email |-> Some(identity),
                                            firebaseUid |-> Some(identity)])
                    /\ Reply("POST /api/users", 0, Len(users) + 1, 200, <<>>, {})
               ELSE UNCHANGED <<users, response>>
            /\ UNCHANGED <<clients, invoices, items, nextClientId, nextInvoiceId,
                           now, inflight, capacity>>

----------------------------------------------------------------------------
(* Storage methods no route calls *)

(* updateInvoiceStatus: throws on a status outside the enum; otherwise     *)
(* doc.update({ status, updatedAt: now, paidAt: now when status is paid }),*)
(* which rejects when the document does not exist.                         *)
updateInvoiceStatus(id, status) ==
    [invoices EXCEPT
        ![id].status = status,
        ![id].updatedAt = now,
        ![id].paidAt = IF status = "paid" THEN Some(now) ELSE @]

UpdateInvoiceStatusWriteFirst(id, status) ==
    IF id \notin DOMAIN invoices
    THEN /\ Fail("updateInvoiceStatus", 0, id, 500,
                 IF status \notin validStatuses THEN "Invalid invoice status" ELSE "NOT_FOUND")
         /\ UNCHANGED <<db, now, inflight, capacity, browser>>
    ELSE /\ invoices' = updateInvoiceStatus(id, status)
         /\ IF status \notin validStatuses
            THEN Fail("updateInvoiceStatus", 0, id, 500, "Invalid invoice status")
            ELSE Reply("updateInvoiceStatus", 0, id, 200,
                       <<[inv |-> invoices'[id], client |-> None, items |-> <<>>]>>, {})
         /\ UNCHANGED <<users, clients, items, nextClientId, nextInvoiceId, now, inflight, capacity, browser>>
UpdateInvoiceStatus(id, status) ==
    IF status \notin validStatuses \/ id \notin DOMAIN invoices
    THEN /\ Fail("updateInvoiceStatus", 0, id, 500,
                 IF status \notin validStatuses THEN "Invalid invoice status" ELSE "NOT_FOUND")
         /\ UNCHANGED <<db, now, inflight, capacity, browser>>
    ELSE /\ invoices' = updateInvoiceStatus(id, status)
         /\ Reply("updateInvoiceStatus", 0, id, 200,
                  <<[inv |-> invoices'[id], client |-> None, items |-> <<>>]>>, {})
         /\ UNCHANGED <<users, clients, items, nextClientId, nextInvoiceId, now, inflight, capacity, browser>>

(* deleteInvoice: one batch deletes the invoice document and the documents *)
(* of the top-level collection "invoiceItems" whose invoiceId is id. No    *)
(* code writes a document to "invoiceItems" (the items are written to the  *)
(* subcollection invoices/{id}/items), so the query is empty and the batch *)
(* holds the one delete; the subcollection is not touched. Deleting a      *)
(* missing document is not an error. commitOk: the commit succeeded.       *)
deleteInvoice(id) == [i \in DOMAIN invoices \ {id} |-> invoices[i]]

DeleteInvoice(id, commitOk) ==
    /\ invoices' = IF commitOk THEN deleteInvoice(id) ELSE invoices
    /\ IF commitOk
       THEN Reply("deleteInvoice", 0, id, 200, <<>>, {})
       ELSE Fail("deleteInvoice", 0, id, 500, "commit failed")
    /\ UNCHANGED <<users, clients, items, nextClientId, nextInvoiceId, now, inflight, capacity, browser>>

----------------------------------------------------------------------------
(* Requests between two awaits. A handler is a chain of awaited storage    *)
(* calls; another request can run between two of them. inflight[r] is what *)
(* request r has done so far and the locals it holds; Idle when r has no   *)
(* request running. The steps below are the handlers above cut at the      *)
(* awaits between their reads and writes; a request that takes an early    *)
(* return answers in its first step.                                       *)

Requests == {"a", "b"}

Idle == [op |-> "idle"]

Finish(r) == inflight' = [inflight EXCEPT ![r] = Idle]

(* POST /api/invoices up to the first write of createInvoice:             *)
(* invoiceRef.set(invoiceData).                                            *)
PostInvoicesSet(r, tok, body, its) ==
    /\ inflight[r] = Idle
    /\ IF AuthUsers(tok) = {}
       THEN Unauthenticated("POST /api/invoices")
       ELSE \E user \in AuthUsers(tok) :
           IF its = None \/ ~InvoiceSchemaOk(body)
           THEN /\ Fail("POST /api/invoices", user, NoSuchId, 400,
                        IF its = None THEN "Missing invoice or items data." ELSE "validation")
                /\ UNCHANGED <<db, now, inflight, capacity, browser>>
           ELSE LET id == nextInvoiceId
                    invoiceData == createInvoiceData(id, user, body)
                IN  /\ nextInvoiceId <= capacity.invoices
                    /\ invoices' = invoices @@ (id :> invoiceData)
                    /\ nextInvoiceId' = id + 1
                    /\ inflight' = [inflight EXCEPT ![r] =
                                       [op |-> "POST", user |-> user, id |-> id,
                                        doc |-> invoiceData, its |-> its[1]]]
                    /\ UNCHANGED <<users, clients, items, nextClientId, now, response, capacity, browser>>

(* The rest of createInvoice: itemBatch.commit(), getClient, and the reply. *)
PostInvoicesCommit(r, commitOk) ==
    /\ inflight[r].op = "POST"
    /\ LET q == inflight[r]
           client == getClient(q.doc.clientId)
       IN  /\ items' = IF commitOk THEN [items EXCEPT ![q.id] = q.its] ELSE items
           /\ IF commitOk /\ client # None
              THEN Reply("POST /api/invoices", q.user, q.id, 200,
                         <<[inv |-> q.doc, client |-> client, items |-> q.its]>>, {})
              ELSE Fail("POST /api/invoices", q.user, q.id, 400,
                        IF commitOk THEN "Client not found" ELSE "commit failed")
    /\ Finish(r)
    /\ UNCHANGED <<users, clients, invoices, nextClientId, nextInvoiceId, now, capacity, browser>>

(* PUT /api/invoices/:id up to its first write: getInvoice and the         *)
(* ownership check, the partial schema, updateInvoice. A body without      *)
(* items is answered here.                                                 *)
PutInvoiceUpdate(r, tok, id, body, its) ==
    /\ inflight[r] = Idle
    /\ IF AuthUsers(tok) = {}
       THEN Unauthenticated("PUT /api/invoices/:id")
       ELSE \E user \in AuthUsers(tok) :
           IF ~OwnsInvoice(user, id)
           THEN /\ Fail("PUT /api/invoices/:id", user, id, 404, "Invoice not found")
                /\ UNCHANGED <<db, now, inflight, capacity, browser>>
           ELSE IF ~PartialInvoiceSchemaOk(body)
           THEN /\ Fail("PUT /api/invoices/:id", user, id, 400, "validation")
                /\ UNCHANGED <<db, now, inflight, capacity, browser>>
           ELSE /\ invoices' = updateInvoice(id, body)
                /\ IF its = None
                   THEN /\ Reply("PUT /api/invoices/:id", user, id, 200,
                                 <<[inv |-> invoices'[id], client |-> None, items |-> <<>>]>>, {})
                        /\ UNCHANGED inflight
                   ELSE /\ inflight' = [inflight EXCEPT ![r] =
                                           [op |-> "PUT", user |-> user, id |-> id,
                                            doc |-> invoices'[id], its |-> its[1]]]
                        /\ UNCHANGED response
                /\ UNCHANGED <<users, clients, items, nextClientId, nextInvoiceId, now, capacity, browser>>

(* The rest of the PUT: replaceInvoiceItems (its listDocuments and its     *)
(* batch commit taken together) and the reply.                             *)
PutInvoiceReplace(r, commitOk) ==
    /\ inflight[r].op = "PUT"
    /\ LET q == inflight[r]
       IN  /\ items' = IF commitOk THEN replaceInvoiceItems(q.id, q.its) ELSE items
           /\ IF commitOk
              THEN Reply("PUT /api/invoices/:id", q.user, q.id, 200,
                         <<[inv |-> q.doc, client |-> None, items |-> <<>>]>>, {})
              ELSE Fail("PUT /api/invoices/:id", q.user, q.id, 400, "commit failed")
    /\ Finish(r)
    /\ UNCHANGED <<users, clients, invoices, nextClientId, nextInvoiceId, now, capacity, browser>>

(* GET /api/invoices/:id up to the last read of getInvoice: the invoice    *)
(* document and its client document have been read.                        *)
GetInvoiceDoc(r, tok, id) ==
    /\ inflight[r] = Idle
    /\ IF AuthUsers(tok) = {}
       THEN Unauthenticated("GET /api/invoices/:id")
       ELSE \E user \in AuthUsers(tok) :
           IF id \notin DOMAIN invoices
           THEN /\ Fail("GET /api/invoices/:id", user, id, 404, "Invoice not found")
                /\ UNCHANGED <<db, now, inflight, capacity, browser>>
           ELSE /\ inflight' = [inflight EXCEPT ![r] =
                                   [op |-> "GET", user |-> user, id |-> id,
                                    doc |-> invoices[id],
                                    client |-> getClient(invoices[id].clientId)]]
                /\ UNCHANGED <<db, now, response, capacity, browser>>

(* The rest of the GET: the items subcollection is read, then the route's  *)
(* ownership check and the reply.                                          *)
GetInvoiceItems(r) ==
    /\ inflight[r].op = "GET"
    /\ LET q == inflight[r]
       IN  IF q.doc.userId # q.user
           THEN Fail("GET /api/invoices/:id", q.user, q.id, 404, "Invoice not found")
           ELSE Reply("GET /api/invoices/:id", q.user, q.id, 200,
                      <<[inv |-> q.doc, client |-> q.client, items |-> items[q.id]]>>, {})
    /\ Finish(r)
    /\ UNCHANGED <<db, now, capacity, browser>>

----------------------------------------------------------------------------
(* The server clock: new Date() of a later request may be later.           *)
Tick ==
    /\ now < MaxTime
    /\ now' = now + 1
    /\ UNCHANGED <<db, response, inflight, capacity, browser>>

----------------------------------------------------------------------------
(* Initial state: the tenants have registered (one User per identity),     *)
(* nothing else is stored.                                                 *)

(* useState(null), useState(null), useState(true) of AuthProvider; nobody *)
(* is signed in and no callback is pending.                                *)
BrowserInit ==
    /\ currentUser = None
    /\ authContext = [firebaseUser |-> None, user |-> None, loading |-> TRUE]
    /\ callbacks = <<>>

Init ==
    /\ users = [u \in UserIds |-> [id |-> u, firebaseUid |-> u, email |-> u]]
    /\ clients = <<>>
    /\ invoices = <<>>
    /\ items = [i \in InvoiceIds |-> <<>>]
    /\ nextClientId = 1
    /\ nextInvoiceId = 1
    /\ now = 0
    /\ response = NoResponse
    /\ inflight = [r \in Requests |-> Idle]
    /\ capacity = [clients |-> MaxClients, invoices |-> MaxInvoices]
    /\ accounts = UserIds
    /\ BrowserInit

(* The same initial state with room for MaxListed clients and invoices,    *)
(* for the listings, whose order and sums need more than one document.     *)
ListedIds == 1..MaxListed

InitListed ==
    /\ users = [u \in UserIds |-> [id |-> u, firebaseUid |-> u, email |-> u]]
    /\ clients = <<>>
    /\ invoices = <<>>
    /\ items = [i \in ListedIds |-> <<>>]
    /\ nextClientId = 1
    /\ nextInvoiceId = 1
    /\ now = 0
    /\ response = NoResponse
    /\ inflight = [r \in Requests |-> Idle]
    /\ capacity = [clients |-> MaxListed, invoices |-> MaxListed]
    /\ accounts = UserIds
    /\ BrowserInit

(* Initial state of a fresh deployment: nobody has registered.             *)
InitEmpty ==
    /\ users = <<>>
    /\ clients = <<>>
    /\ invoices = <<>>
    /\ items = [i \in InvoiceIds |-> <<>>]
    /\ nextClientId = 1
    /\ nextInvoiceId = 1
    /\ now = 0
    /\ response = NoResponse
    /\ inflight = [r \in Requests |-> Idle]
    /\ capacity = [clients |-> MaxClients, invoices |-> MaxInvoices]
    /\ accounts = {}
    /\ BrowserInit

(* The client ids a caller can name: those handed out so far, or one that  *)
(* never existed.                                                          *)
KnownClientIds == 0..(nextClientId - 1)

RefersToKnownClient(body) ==
    IF body.clientId = None THEN TRUE ELSE body.clientId[1] \in KnownClientIds

Known(bodies) == {body \in bodies : RefersToKnownClient(body)}

(* The batch commit of a request can fail only where there is one.         *)
CommitOutcomes(its) == IF its = None THEN {TRUE} ELSE BOOLEAN

----------------------------------------------------------------------------
(* Spec: tenancy. Every tenant calls every route with a verified token,    *)
(* naming any tenant id and any client id in the body; the money of the    *)
(* bodies is fixed and every batch commit succeeds.                        *)

OneItem == <<[quantity |-> 100, rate |-> 100, amount |-> 100]>>

TenancyClientBodies == ClientBody(Opt(UserIds))

TenancyInvoiceBodies ==
    InvoiceBody(Opt(UserIds), {Some(c) : c \in 0..MaxClients}, {None},
                {Some(100)}, {Some(0)}, {Some(0)}, {Some(100)}, {None})

(* A PUT names a new tenant id or a new client id (or nothing).            *)
TenancyInvoicePatches ==
    InvoiceBody(Opt(UserIds), {None}, {None}, {None}, {None}, {None}, {None}, {None})
    \cup InvoiceBody({None}, Opt(0..MaxClients), {None}, {None}, {None}, {None}, {None}, {None})

Next ==
    \/ \E tok \in UserIds, body \in TenancyClientBodies : PostClients(tok, body)
    \/ \E tok \in UserIds : GetClients(tok)
    \/ \E tok \in UserIds, id \in ClientIds : GetClient(tok, id)
    \/ \E tok \in UserIds, id \in ClientIds, body \in TenancyClientBodies : PutClient(tok, id, body)
    \/ \E tok \in UserIds, id \in ClientIds : DeleteClient(tok, id)
    \/ \E tok \in UserIds, body \in Known(TenancyInvoiceBodies) :
          PostInvoices(tok, body, Some(OneItem), TRUE)
    \/ \E tok \in UserIds, id \in InvoiceIds : GetInvoice(tok, id)
    \/ \E tok \in UserIds : GetInvoices(tok, None)
    \/ \E tok \in UserIds, id \in InvoiceIds, body \in Known(TenancyInvoicePatches) :
          PutInvoice(tok, id, body, None, TRUE)
    \/ \E tok \in UserIds : GetRecentInvoices(tok, None)

Spec == Init /\ [][Next]_vars

----------------------------------------------------------------------------
(* SpecJoin: as Spec, but no body names a tenant id: what a tenant sees of *)
(* the others when nobody tries to reassign a record.                      *)

JoinInvoiceBodies ==
    InvoiceBody({None}, {Some(c) : c \in 0..MaxClients}, {None},
                {Some(100)}, {Some(0)}, {Some(0)}, {Some(100)}, {None})

JoinInvoicePatches ==
    InvoiceBody({None}, Opt(0..MaxClients), {None}, {None}, {None}, {None}, {None}, {None})

NextJoin ==
    \/ \E tok \in UserIds : PostClients(tok, [userId |-> None])
    \/ \E tok \in UserIds : GetClients(tok)
    \/ \E tok \in UserIds, id \in ClientIds : GetClient(tok, id)
    \/ \E tok \in UserIds, id \in ClientIds : PutClient(tok, id, [userId |-> None])
    \/ \E tok \in UserIds, id \in ClientIds : DeleteClient(tok, id)
    \/ \E tok \in UserIds, body \in Known(JoinInvoiceBodies) :
          PostInvoices(tok, body, Some(OneItem), TRUE)
    \/ \E tok \in UserIds, id \in InvoiceIds : GetInvoice(tok, id)
    \/ \E tok \in UserIds : GetInvoices(tok, None)
    \/ \E tok \in UserIds, id \in InvoiceIds, body \in Known(JoinInvoicePatches) :
          PutInvoice(tok, id, body, None, TRUE)
    \/ \E tok \in UserIds : GetRecentInvoices(tok, None)

SpecJoin == Init /\ [][NextJoin]_vars

----------------------------------------------------------------------------
(* SpecMoney: one tenant and its clients; the bodies carry any of a few    *)
(* money strings, consistent with each other or not. Cents, hundredths of  *)
(* a unit for a quantity, hundredths of a percent for a tax rate.          *)

ExistingClientIds == 1..(nextClientId - 1)

Subtotals == {1, 2}
TaxRates == {0, 5000}
TaxAmounts == {0, 1}
Totals == {2, 3}

MoneyItems == SeqsUpTo(ItemBody({100, 150}, {1}, {1}), MaxItems) \ {<<>>}

MoneyInvoiceBodies ==
    InvoiceBody({None}, {Some(c) : c \in ExistingClientIds}, {None},
                {Some(m) : m \in Subtotals}, {Some(r) : r \in TaxRates},
                {Some(m) : m \in TaxAmounts}, {Some(m) : m \in Totals}, {None})

(* A PUT carries the four money fields, or one of them, or none.           *)
MoneyInvoicePatches ==
    InvoiceBody({None}, {None}, {None},
                {Some(m) : m \in Subtotals}, {Some(r) : r \in TaxRates},
                {Some(m) : m \in TaxAmounts}, {Some(m) : m \in Totals}, {None})
    \cup InvoiceBody({None}, {None}, {None}, Opt(Subtotals), {None}, {None}, {None}, {None})
    \cup InvoiceBody({None}, {None}, {None}, {None}, Opt(TaxRates), {None}, {None}, {None})
    \cup InvoiceBody({None}, {None}, {None}, {None}, {None}, Opt(TaxAmounts), {None}, {None})
    \cup InvoiceBody({None}, {None}, {None}, {None}, {None}, {None}, Opt(Totals), {None})

NextMoney ==
    \/ PostClients(1, [userId |-> None])
    \/ \E body \in MoneyInvoiceBodies, its \in MoneyItems :
          PostInvoices(1, body, Some(its), TRUE)
    \/ \E id \in InvoiceIds : GetInvoice(1, id)
    \/ \E id \in InvoiceIds, body \in MoneyInvoicePatches,
          its \in Opt(MoneyItems) :
          PutInvoice(1, id, body, its, TRUE)

SpecMoney == Init /\ [][NextMoney]_vars

----------------------------------------------------------------------------
(* SpecStatus: one tenant; the bodies carry any status and any paidAt, the *)
(* clock advances, and updateInvoiceStatus is called on the storage.       *)

Statuses == validStatuses \cup {"draft"}

StatusInvoiceBodies ==
    InvoiceBody({None}, {Some(c) : c \in ExistingClientIds}, Opt(Statuses),
                {Some(100)}, {Some(0)}, {Some(0)}, {Some(100)}, Opt(Opt(Times)))

StatusInvoicePatches ==
    InvoiceBody({None}, {None}, Opt(Statuses), {None}, {None}, {None}, {None}, Opt(Opt(Times)))

NextStatus ==
    \/ PostClients(1, [userId |-> None])
    \/ \E body \in StatusInvoiceBodies : PostInvoices(1, body, Some(OneItem), TRUE)
    \/ \E id \in InvoiceIds : GetInvoice(1, id)
    \/ \E id \in InvoiceIds, body \in StatusInvoicePatches : PutInvoice(1, id, body, None, TRUE)
    \/ \E id \in InvoiceIds, status \in Statuses : UpdateInvoiceStatus(id, status)
    \/ Tick

SpecStatus == Init /\ [][NextStatus]_vars

----------------------------------------------------------------------------
(* SpecFailure: one tenant; a batch commit may fail, a body may name a     *)
(* client that does not exist, a request may come without a valid token.   *)

FailureTokens == {NoToken, 1}

FailureItems == {None, Some(<<>>), Some(OneItem)}

NextFailure ==
    \/ \E tok \in FailureTokens : PostClients(tok, [userId |-> None])
    \/ \E tok \in FailureTokens, id \in ClientIds : DeleteClient(tok, id)
    \/ \E tok \in FailureTokens, body \in Known(JoinInvoiceBodies), its \in FailureItems,
          commitOk \in BOOLEAN :
          PostInvoices(tok, body, its, commitOk)
    \/ \E tok \in FailureTokens, id \in InvoiceIds : GetInvoice(tok, id)
    \/ \E tok \in FailureTokens : GetInvoices(tok, None)
    \/ \E tok \in FailureTokens, id \in InvoiceIds, body \in Known(JoinInvoicePatches),
          its \in FailureItems :
          \E commitOk \in CommitOutcomes(its) : PutInvoice(tok, id, body, its, commitOk)

SpecFailure == Init /\ [][NextFailure]_vars

----------------------------------------------------------------------------
(* SpecAggregate: one tenant creates an invoice with its items, replaces   *)
(* the items, and deleteInvoice is called on the storage; the commit of    *)
(* deleteInvoice may fail.                                                 *)

NextAggregate ==
    \/ PostClients(1, [userId |-> None])
    \/ \E body \in MoneyInvoiceBodies, its \in MoneyItems :
          PostInvoices(1, body, Some(its), TRUE)
    \/ \E id \in InvoiceIds : GetInvoice(1, id)
    \/ \E id \in InvoiceIds, its \in MoneyItems :
          PutInvoice(1, id, [userId |-> None, clientId |-> None, status |-> None,
                             subtotal |-> None, taxRate |-> None, taxAmount |-> None,
                             total |-> None, paidAt |-> None],
                     Some(its), TRUE)
    \/ \E id \in InvoiceIds, commitOk \in BOOLEAN : DeleteInvoice(id, commitOk)

SpecAggregate == Init /\ [][NextAggregate]_vars

----------------------------------------------------------------------------
(* SpecConcurrent: one tenant, two requests at a time, cut at their        *)
(* awaits. Every body is consistent in itself: the items are lines of one  *)
(* cent, the subtotal and the total are their sum, there is no tax; every  *)
(* commit succeeds. updateInvoiceStatus is one write.                      *)

ConsistentItems(subtotal) ==
    [k \in 1..subtotal |-> [quantity |-> 100, rate |-> 1, amount |-> 1]]

ConsistentBody(clientId, status, subtotal) ==
    [userId |-> None, clientId |-> clientId, status |-> status, subtotal |-> subtotal,
     taxRate |-> IF subtotal = None THEN None ELSE Some(0),
     taxAmount |-> IF subtotal = None THEN None ELSE Some(0),
     total |-> subtotal, paidAt |-> None]

(* A PUT carries new items with their totals, or a status alone.           *)
ConcurrentPuts ==
    {[body |-> ConsistentBody(None, None, Some(m)), its |-> Some(ConsistentItems(m))] :
        m \in 1..MaxItems}
    \cup {[body |-> ConsistentBody(None, Some("pending"), None), its |-> None]}

NextConcurrent ==
    \/ PostClients(1, [userId |-> None])
    \/ \E r \in Requests, c \in ExistingClientIds, m \in 1..MaxItems :
          PostInvoicesSet(r, 1, ConsistentBody(Some(c), None, Some(m)), Some(ConsistentItems(m)))
    \/ \E r \in Requests : PostInvoicesCommit(r, TRUE)
    \/ \E r \in Requests, id \in InvoiceIds, put \in ConcurrentPuts :
          PutInvoiceUpdate(r, 1, id, put.body, put.its)
    \/ \E r \in Requests : PutInvoiceReplace(r, TRUE)
    \/ \E r \in Requests, id \in InvoiceIds : GetInvoiceDoc(r, 1, id)
    \/ \E r \in Requests : GetInvoiceItems(r)
    \/ \E id \in InvoiceIds, status \in {"paid", "overdue"} : UpdateInvoiceStatus(id, status)

SpecConcurrent == Init /\ [][NextConcurrent]_vars

----------------------------------------------------------------------------
(* SpecWriters: as SpecConcurrent, but the invoice is there before the     *)
(* writers start (its POST is one step): two PUT /api/invoices/:id, or a   *)
(* PUT and an updateInvoiceStatus, run between each other's awaits.        *)

NextWriters ==
    \/ PostClients(1, [userId |-> None])
    \/ \E c \in ExistingClientIds, m \in 1..MaxItems :
          PostInvoices(1, ConsistentBody(Some(c), None, Some(m)), Some(ConsistentItems(m)), TRUE)
    \/ \E r \in Requests, id \in InvoiceIds, put \in ConcurrentPuts :
          PutInvoiceUpdate(r, 1, id, put.body, put.its)
    \/ \E r \in Requests : PutInvoiceReplace(r, TRUE)
    \/ \E id \in InvoiceIds : GetInvoice(1, id)
    \/ \E id \in InvoiceIds, status \in {"paid", "overdue"} : UpdateInvoiceStatus(id, status)

SpecWriters == Init /\ [][NextWriters]_vars

----------------------------------------------------------------------------
(* SpecStatusCall: one tenant creates pending invoices; the clock          *)
(* advances, and updateInvoiceStatus is called on the storage with any     *)
(* status, of the enum or not, for any id.                                 *)

NextStatusCall ==
    \/ PostClients(1, [userId |-> None])
    \/ \E c \in ExistingClientIds :
          PostInvoices(1, ConsistentBody(Some(c), None, Some(1)), Some(ConsistentItems(1)), TRUE)
    \/ \E id \in InvoiceIds, status \in Statuses : UpdateInvoiceStatus(id, status)
    \/ Tick

SpecStatusCall == Init /\ [][NextStatusCall]_vars

----------------------------------------------------------------------------
(* SpecUsers: registration from a fresh deployment. Anyone posts a user    *)
(* with any e-mail address and any identity; a registered user updates its *)
(* profile, the e-mail address and the identity included.                  *)

Identities == 1..MaxUsers

UserBodies == UserBody(Opt(Identities), Opt(Identities))

NextUsers ==
    \/ \E body \in UserBodies : PostUsers(body)
    \/ \E tok \in Identities \cup {NoToken} : GetUsersMe(tok)
    \/ \E tok \in Identities \cup {NoToken}, body \in UserBodies : PutUsersMe(tok, body)

SpecUsers == InitEmpty /\ [][NextUsers]_vars

----------------------------------------------------------------------------
(* SpecListing: every tenant creates invoices of any status, changes their *)
(* status, and lists them with any status parameter, the word "all"        *)
(* included, directly or through the invoices page.                        *)

StatusFilters == validStatuses \cup {"all"}

ListingInvoiceBodies ==
    InvoiceBody({None}, {Some(c) : c \in ExistingClientIds}, Opt(validStatuses),
                {Some(100)}, {Some(0)}, {Some(0)}, {Some(100)}, {None})

ListingInvoicePatches ==
    InvoiceBody({None}, {None}, {Some(s) : s \in validStatuses},
                {None}, {None}, {None}, {None}, {None})

NextListing ==
    \/ \E tok \in UserIds : PostClients(tok, [userId |-> None])
    \/ \E tok \in UserIds, body \in ListingInvoiceBodies :
          PostInvoices(tok, body, Some(OneItem), TRUE)
    \/ \E tok \in UserIds, id \in InvoiceIds, body \in ListingInvoicePatches :
          PutInvoice(tok, id, body, None, TRUE)
    \/ \E tok \in UserIds, id \in InvoiceIds : GetInvoice(tok, id)
    \/ \E tok \in UserIds, status \in Opt(StatusFilters) : GetInvoices(tok, status)
    \/ \E tok \in UserIds, statusFilter \in StatusFilters : InvoicesQuery(tok, statusFilter)

SpecListing == Init /\ [][NextListing]_vars

----------------------------------------------------------------------------
(* SpecMetrics: two tenants store clients and invoices of every status and *)
(* read their dashboard metrics.                                           *)

MetricsTenants == {1, 2}

MetricsInvoiceBodies ==
    InvoiceBody({None}, {Some(c) : c \in ExistingClientIds \cap {1}},
                {None} \cup {Some(s) : s \in validStatuses},
                {Some(0)}, {Some(0)}, {Some(0)}, {Some(10000), Some(5000)}, {None})

NextMetrics ==
    \/ \E tok \in MetricsTenants : PostClients(tok, [userId |-> None])
    \/ \E tok \in MetricsTenants, body \in MetricsInvoiceBodies :
          PostInvoices(tok, body, Some(OneItem), TRUE)
    \/ \E tok \in MetricsTenants : GetDashboardMetrics(tok)

SpecMetrics == InitListed /\ [][NextMetrics]_vars

----------------------------------------------------------------------------
(* SpecClients: two tenants create clients at different times and invoices *)
(* that refer to them, and list their clients.                             *)

ClientsInvoiceBodies ==
    InvoiceBody({None}, {Some(c) : c \in ExistingClientIds}, {None},
                {Some(0)}, {Some(0)}, {Some(0)}, {Some(10000), Some(5000)}, {None})

NextClients ==
    \/ \E tok \in MetricsTenants : PostClients(tok, [userId |-> None])
    \/ \E body \in ClientsInvoiceBodies : PostInvoices(1, body, Some(OneItem), TRUE)
    \/ \E tok \in MetricsTenants : GetClients(tok)
    \/ Tick

SpecClients == InitListed /\ [][NextClients]_vars

----------------------------------------------------------------------------
(* SpecGate: every route behind authenticateUser is called without a       *)
(* token (or with one that does not verify), with the token of an identity *)
(* that never registered, and with the token of a registered user.         *)

UnregisteredIdentity == MaxUsers + 1

GateTokens == {NoToken, UnregisteredIdentity, 1}

GateUserBodies == UserBody({Some(1)}, {None})

GateInvoiceBodies ==
    InvoiceBody({None}, {Some(1)}, {None}, {Some(100)}, {Some(0)}, {Some(0)}, {Some(100)}, {None})

GateInvoicePatches ==
    InvoiceBody({None}, {None}, {Some("paid")}, {None}, {None}, {None}, {None}, {None})

(* A request with token tok to one of the routes registered with           *)
(* authenticateUser.                                                       *)
Protected(tok) ==
    \/ GetUsersMe(tok)
    \/ \E body \in GateUserBodies : PutUsersMe(tok, body)
    \/ GetClients(tok)
    \/ PostClients(tok, [userId |-> None])
    \/ \E id \in ClientIds : GetClient(tok, id)
    \/ \E id \in ClientIds : PutClient(tok, id, [userId |-> None])
    \/ \E id \in ClientIds : DeleteClient(tok, id)
    \/ GetInvoices(tok, None)
    \/ \E body \in GateInvoiceBodies : PostInvoices(tok, body, Some(OneItem), TRUE)
    \/ \E id \in InvoiceIds : GetInvoice(tok, id)
    \/ \E id \in InvoiceIds, body \in GateInvoicePatches :
          PutInvoice(tok, id, body, Some(OneItem), TRUE)
    \/ GetRecentInvoices(tok, None)
    \/ GetDashboardMetrics(tok)

NextGate == \E tok \in GateTokens : Protected(tok)

SpecGate == Init /\ [][NextGate]_vars

----------------------------------------------------------------------------
(* SpecPage: one tenant creates clients and invoices, pending or overdue,  *)
(* and uses the invoices page: the listing, "mark as paid" and delete on a *)
(* listed invoice. Every request the page sends is answered.               *)

PageInvoiceBodies ==
    InvoiceBody({None}, {Some(c) : c \in ExistingClientIds}, {None, Some("overdue")},
                {Some(100)}, {Some(0)}, {Some(0)}, {Some(100)}, {None})

NextPage ==
    \/ PostClients(1, [userId |-> None])
    \/ \E body \in PageInvoiceBodies : PostInvoices(1, body, Some(OneItem), TRUE)
    \/ \E statusFilter \in StatusFilters : InvoicesQuery(1, statusFilter)
    \/ \E id \in ListedIds : updateStatusMutation(id, "paid")
    \/ \E id \in ListedIds : deleteInvoiceMutation(id)

SpecPage ==
    /\ InitListed /\ [][NextPage]_vars
    /\ WF_vars(NextPage)
    /\ \A id \in ListedIds : WF_vars(updateStatusMutation(id, "paid"))
    /\ \A id \in ListedIds : WF_vars(deleteInvoiceMutation(id))

----------------------------------------------------------------------------
(* SpecAuth: the registered users sign in, switch accounts and sign out,   *)
(* and the fetches of AuthProvider are answered in any order.              *)

NextAuth ==
    \/ AuthStateRestored
    \/ \E identity \in UserIds : signIn(identity)
    \/ logOut
    \/ \E k \in 1..MaxCallbacks : UsersMeFetched(k)

SpecAuth == Init /\ [][NextAuth]_vars

----------------------------------------------------------------------------
(* SpecRegister: a fresh deployment; people register on the auth page,     *)
(* where POST /api/users may fail, sign out and sign in again.             *)

NextRegister ==
    \/ AuthStateRestored
    \/ \E identity \in UserIds, delivered \in BOOLEAN : handleSubmit(identity, delivered)
    \/ \E identity \in UserIds : signIn(identity)
    \/ logOut
    \/ \E k \in 1..MaxCallbacks : UsersMeFetched(k)

SpecRegister == InitEmpty /\ [][NextRegister]_vars

----------------------------------------------------------------------------
(* SpecRecent: one tenant creates a client and invoices at different       *)
(* times and asks for the recent invoices with any limit, and for the      *)
(* listing.                                                                *)

RecentLimits == 0..MaxListed

RecentInvoiceBodies ==
    InvoiceBody({None}, {Some(c) : c \in ExistingClientIds}, {None},
                {Some(100)}, {Some(0)}, {Some(0)}, {Some(100)}, {None})

NextRecent ==
    \/ nextClientId = 1 /\ PostClients(1, [userId |-> None])
    \/ \E body \in RecentInvoiceBodies : PostInvoices(1, body, Some(OneItem), TRUE)
    \/ \E limit \in Opt(RecentLimits) : GetRecentInvoices(1, limit)
    \/ GetInvoices(1, None)
    \/ Tick

SpecRecent == InitListed /\ [][NextRecent]_vars

----------------------------------------------------------------------------
(* Tenancy claims, checked under Spec *)

(* C2: tenant isolation on read. A GET /api/invoices/:id whose resolved    *)
(* tenant is not the tenant that owns the stored invoice answers 404 and   *)
(* returns no invoice; an invoice it does return is owned by the resolved  *)
(* tenant.                                                                 *)
C2_TenantIsolationOnRead ==
    response.route = "GET /api/invoices/:id" =>
        /\ (response.id \in DOMAIN invoices /\ invoices[response.id].userId # response.tenant)
              => (response.status = 404 /\ response.invoices = <<>>)
        /\ \A k \in 1..Len(response.invoices) :
              response.invoices[k].inv.userId = response.tenant

(* A tenant has asked for the stored invoice of another tenant.            *)
C2_Witness ==
    /\ response.route = "GET /api/invoices/:id"
    /\ response.id \in DOMAIN invoices
    /\ invoices[response.id].userId # response.tenant
    /\ response.tenant \in UserIds
    /\ response.status = 404

(* C3: no response to a request whose resolved tenant is A carries a       *)
(* Client record owned by another tenant, the client joined to an invoice  *)
(* included.                                                               *)
C3_NoForeignClientInResponse ==
    \A c \in ClientsIn(response) : c.userId = response.tenant

(* C4: the tenant of a stored invoice or client is the tenant resolved for *)
(* the request that created it, and no later request changes it.           *)
C4_TenantIdFromCredential ==
    [][/\ \A i \in DOMAIN invoices' :
              invoices'[i].userId = IF i \in DOMAIN invoices THEN invoices[i].userId
                                    ELSE response'.tenant
       /\ \A c \in DOMAIN clients' :
              clients'[c].userId = IF c \in DOMAIN clients THEN clients[c].userId
                                   ELSE response'.tenant]_vars

(* C24: a PUT /api/clients/:id, a DELETE /api/clients/:id or a PUT         *)
(* /api/invoices/:id whose target does not exist, or is owned by another   *)
(* tenant than the resolved one, when the request arrives, answers 404 and *)
(* leaves every stored user, client, invoice and item as it was.           *)
C24_CrossTenantWrites ==
    [][/\ (/\ response'.route \in {"PUT /api/clients/:id", "DELETE /api/clients/:id"}
           /\ response'.tenant \in UserIds
           /\ \/ response'.id \notin DOMAIN clients
              \/ clients[response'.id].userId # response'.tenant)
          => (response'.status = 404 /\ db' = db)
       /\ (/\ response'.route = "PUT /api/invoices/:id"
           /\ response'.tenant \in UserIds
           /\ \/ response'.id \notin DOMAIN invoices
              \/ invoices[response'.id].userId # response'.tenant)
          => (response'.status = 404 /\ db' = db)]_vars

(* A tenant has tried to delete the stored client of another tenant.       *)
C24_Witness ==
    /\ response.route = "DELETE /api/clients/:id"
    /\ response.tenant \in UserIds
    /\ response.id \in DOMAIN clients
    /\ clients[response.id].userId # response.tenant
    /\ response.status = 404

(* C26: a request to a route other than POST /api/users that has no       *)
(* verified token, or the token of an identity no user has, is answered    *)
(* 401 and writes nothing; a request that is answered otherwise was        *)
(* handled for a user who has the identity of its token.                   *)
C26_AuthenticationGate ==
    [][\A tok \in GateTokens :
          Protected(tok)
          => /\ (tok = NoToken \/ \A u \in DOMAIN users : users[u].firebaseUid # tok)
                   => (response'.status = 401 /\ db' = db)
             /\ response'.status # 401
                   => /\ tok # NoToken
                      /\ response'.tenant \in DOMAIN users
                      /\ users[response'.tenant].firebaseUid = tok]_vars

(* A DELETE /api/clients/:id without a verified token was answered 401     *)
(* while a client was stored.                                              *)
C26_Witness ==
    /\ response.route = "DELETE /api/clients/:id"
    /\ response.status = 401
    /\ response.tenant = 0
    /\ DOMAIN clients # {}
    /\ DOMAIN invoices # {}

(* C5: after DELETE /api/clients/:id has succeeded, no stored invoice      *)
(* refers to the deleted client, getInvoice finds none of them and no      *)
(* item of such an invoice is left.                                        *)
C5_CascadeOnClientDelete ==
    (response.route = "DELETE /api/clients/:id" /\ response.status = 200) =>
        /\ \A i \in DOMAIN invoices : invoices[i].clientId # response.id
        /\ \A i \in InvoiceIds : getInvoice(i) = None => items[i] = <<>>

----------------------------------------------------------------------------
(* Listing claims, checked under SpecListing *)

(* The ids of the invoices a response carries.                             *)
InvoiceIdsIn(r) == {r.invoices[k].inv.id : k \in 1..Len(r.invoices)}

(* C19: GET /api/invoices with a status filter returns exactly the         *)
(* invoices of the resolved tenant whose status is the filter; with no     *)
(* status or with the word "all" it returns every invoice of the tenant.   *)
C19_StatusFilter ==
    [][\A tok \in UserIds, status \in Opt(StatusFilters) :
          GetInvoices(tok, status)
          => InvoiceIdsIn(response') =
                {i \in DOMAIN invoices :
                    /\ invoices[i].userId = response'.tenant
                    /\ (status \in {None, Some("all")} \/ invoices[i].status = status[1])}]_vars

(* C20: every invoice GET /api/invoices returns is what getInvoice returns *)
(* for its id in the same state: the document, its client and its stored   *)
(* items.                                                                  *)
C20_ListingCarriesItems ==
    response.route = "GET /api/invoices" =>
        \A k \in 1..Len(response.invoices) :
            Some(response.invoices[k]) = getInvoice(response.invoices[k].inv.id)

(* C21: GET /api/dashboard/recent-invoices with limit n returns min(n, N)  *)
(* invoices of the tenant, N being how many it owns: none of those left    *)
(* out was created later than one returned, the later created come first,  *)
(* and each has its stored items.                                          *)
C21_RecentInvoices ==
    [][\A limit \in RecentLimits \ {0} :
          GetRecentInvoices(1, Some(limit))
          => LET r == response'
                 mine == {i \in DOMAIN invoices : invoices[i].userId = r.tenant}
                 got == InvoiceIdsIn(r)
             IN  /\ Len(r.invoices) = IF limit < Cardinality(mine) THEN limit
                                      ELSE Cardinality(mine)
                 /\ got \subseteq mine /\ Cardinality(got) = Len(r.invoices)
                 /\ \A i \in got, j \in mine \ got :
                       invoices[i].createdAt >= invoices[j].createdAt
                 /\ \A a, b \in 1..Len(r.invoices) :
                       a < b => r.invoices[a].inv.createdAt >= r.invoices[b].inv.createdAt
                 /\ \A k \in 1..Len(r.invoices) :
                       r.invoices[k].items = items[r.invoices[k].inv.id]]_vars

(* C25: the invoices of GET /api/invoices are in the order of their        *)
(* creation time, the later created first.                                 *)
C25_ListingOrder ==
    response.route = "GET /api/invoices" =>
        \A a, b \in 1..Len(response.invoices) :
            a < b => response.invoices[a].inv.createdAt >= response.invoices[b].inv.createdAt

----------------------------------------------------------------------------
(* Aggregation claims, checked under SpecMetrics *)

(* The sum of the totals of the stored invoices of tenant whose status is  *)
(* status.                                                                 *)
TotalOfStatus(tenant, status) ==
    SumSeq([i \in 1..(nextInvoiceId - 1) |->
               IF i \in DOMAIN invoices /\ invoices[i].userId = tenant
                  /\ invoices[i].status = status
               THEN invoices[i].total ELSE 0])

(* C22: the metrics GET /api/dashboard/metrics returns to a tenant are the *)
(* number of its invoices, the sum of the totals of its pending invoices,  *)
(* the sum of the totals of its paid invoices and the number of its        *)
(* clients; overdue invoices count only in totalInvoices, and the records  *)
(* of other tenants count nowhere.                                         *)
C22_DashboardAggregation ==
    [][\A tok \in MetricsTenants :
          GetDashboardMetrics(tok)
          => LET m == response'.metrics[1]
             IN  /\ m.totalInvoices =
                       Cardinality({i \in DOMAIN invoices : invoices[i].userId = tok})
                 /\ m.pendingAmount = TotalOfStatus(tok, "pending")
                 /\ m.totalRevenue = TotalOfStatus(tok, "paid")
                 /\ m.totalClients =
                       Cardinality({c \in DOMAIN clients : clients[c].userId = tok})]_vars

(* A tenant with one pending invoice of 100.00 and one paid invoice of     *)
(* 50.00 is told 100.00 pending, 50.00 revenue and 2 invoices, and is told *)
(* 1 client while another tenant has a client too.                         *)
C22_Witness ==
    /\ response.route = "GET /api/dashboard/metrics" /\ response.status = 200
    /\ response.metrics = Some([totalInvoices |-> 2, pendingAmount |-> 10000,
                                totalRevenue |-> 5000, totalClients |-> 1])
    /\ \E c \in DOMAIN clients : clients[c].userId # response.tenant
    /\ \E i, j \in DOMAIN invoices :
          /\ invoices[i].userId = response.tenant /\ invoices[j].userId = response.tenant
          /\ invoices[i].status = "pending" /\ invoices[i].total = 10000
          /\ invoices[j].status = "paid" /\ invoices[j].total = 5000

(* C23: GET /api/clients returns exactly the clients of the tenant, each   *)
(* with the number of stored invoices that refer to it and the sum of      *)
(* their totals (0.00 when there are none), the client created last first. *)
C23_ClientStatistics ==
    [][\A tok \in MetricsTenants :
          GetClients(tok)
          => LET stats == response'.clientStats
             IN  /\ {stats[k].client.id : k \in 1..Len(stats)}
                       = {c \in DOMAIN clients : clients[c].userId = tok}
                 /\ Len(stats) = Cardinality({c \in DOMAIN clients : clients[c].userId = tok})
                 /\ \A k \in 1..Len(stats) :
                       LET c == stats[k].client.id
                       IN  /\ stats[k].client = clients[c]
                           /\ stats[k].invoiceCount =
                                 Cardinality({i \in DOMAIN invoices : invoices[i].clientId = c})
                           /\ stats[k].totalAmount =
                                 SumSeq([i \in 1..(nextInvoiceId - 1) |->
                                           IF i \in DOMAIN invoices /\ invoices[i].clientId = c
                                           THEN invoices[i].total ELSE 0])
                 /\ \A a, b \in 1..Len(stats) :
                       a < b => stats[a].client.createdAt >= stats[b].client.createdAt]_vars

----------------------------------------------------------------------------
(* Registration, checked under SpecUsers *)

(* C18: createUser fails when a user with the same identity exists: no two *)
(* stored users have the same firebaseUid.                                 *)
C18_OneUserPerIdentity ==
    \A u, v \in DOMAIN users : users[u].firebaseUid = users[v].firebaseUid => u = v

----------------------------------------------------------------------------
(* Validation of POST /api/invoices, checked under SpecJoin and SpecFailure *)

(* C15: a POST /api/invoices whose clientId does not resolve to a client   *)
(* of the resolved tenant answers with an error and stores nothing; every  *)
(* invoice a step stores references a stored client of the invoice's       *)
(* tenant.                                                                 *)
C15_ClientReferenceValidated ==
    [][\A i \in DOMAIN invoices' \ DOMAIN invoices :
          /\ invoices'[i].clientId \in DOMAIN clients
          /\ clients[invoices'[i].clientId].userId = invoices'[i].userId]_vars

(* C16: a POST /api/invoices with an empty items array answers with an     *)
(* error and stores no invoice: every invoice stored by a request whose    *)
(* item batch was committed and whose client was found has at least one    *)
(* item.                                                                   *)
C16_EmptyItemsRejected ==
    [][\A i \in DOMAIN invoices' \ DOMAIN invoices :
          response'.message \notin {"commit failed", "Client not found"}
             => items'[i] # <<>>]_vars

----------------------------------------------------------------------------
(* Atomicity, checked under SpecFailure and SpecAggregate *)

(* C1: when the item batch of createInvoice fails, no invoice of that call *)
(* is observable afterwards: getInvoice does not find it and no listing    *)
(* has it.                                                                 *)
C1_NoOrphanInvoice ==
    (response.route = "POST /api/invoices" /\ response.message = "commit failed") =>
        /\ getInvoice(response.id) = None
        /\ \A u \in UserIds : response.id \notin getInvoicesByUserId(u, None)

(* C27: a POST /api/invoices or a PUT /api/invoices/:id that answers with *)
(* an error status leaves the stored invoices and items as they were       *)
(* before the request.                                                     *)
C27_FailedWriteLeavesNoTrace ==
    [][\A tok \in FailureTokens, its \in FailureItems, commitOk \in BOOLEAN :
          /\ \A body \in Known(JoinInvoiceBodies) :
                (PostInvoices(tok, body, its, commitOk) /\ response'.status >= 400)
                => (invoices' = invoices /\ items' = items)
          /\ \A id \in InvoiceIds, body \in Known(JoinInvoicePatches) :
                (PutInvoice(tok, id, body, its, commitOk) /\ response'.status >= 400)
                => (invoices' = invoices /\ items' = items)]_vars

(* C12: after deleteInvoice(id) has completed, neither the invoice nor     *)
(* any item stored for it by createInvoice or replaceInvoiceItems is left; *)
(* and in no state are the items of an invoice stored without the invoice. *)
C12_DeleteRemovesAggregate ==
    /\ (response.route = "deleteInvoice" /\ response.status = 200)
          => (response.id \notin DOMAIN invoices /\ items[response.id] = <<>>)
    /\ \A i \in InvoiceIds : i \notin DOMAIN invoices => items[i] = <<>>

----------------------------------------------------------------------------
(* Money claims, checked under SpecMoney *)

(* round(n / d) for n >= 0, halves up.                                     *)
RoundDiv(n, d) == (2 * n + d) \div (2 * d)

Amounts(its) == [k \in 1..Len(its) |-> its[k].amount]

(* C6: the subtotal of every stored invoice is the sum of the amounts of   *)
(* its stored items.                                                       *)
C6_SubtotalIsSumOfItems ==
    \A i \in DOMAIN invoices : invoices[i].subtotal = SumSeq(Amounts(items[i]))

(* C7: every stored invoice has total = subtotal + taxAmount and           *)
(* taxAmount = round(subtotal * taxRate / 100, 2).                         *)
C7_TaxAndTotal ==
    \A i \in DOMAIN invoices :
        /\ invoices[i].total = invoices[i].subtotal + invoices[i].taxAmount
        /\ invoices[i].taxAmount = RoundDiv(invoices[i].subtotal * invoices[i].taxRate, 10000)

(* C8: every stored item has amount = round(quantity * rate, 2).           *)
C8_ItemAmount ==
    \A i \in InvoiceIds : \A k \in 1..Len(items[i]) :
        items[i][k].amount = RoundDiv(items[i][k].quantity * items[i][k].rate, 100)

(* The totals an invoice with tax rate taxRate has when its items are its. *)
SubtotalOf(its) == SumSeq(Amounts(its))
TaxAmountOf(its, taxRate) == RoundDiv(SubtotalOf(its) * taxRate, 10000)

(* C11: when a PUT /api/invoices/:id has replaced the items of invoice id  *)
(* by the set S, getInvoice(id) returns exactly S, and the subtotal,       *)
(* taxAmount and total of the invoice are those computed from S.           *)
C11_ReplaceRoundTrip ==
    [][\A id \in InvoiceIds, body \in MoneyInvoicePatches, S \in MoneyItems :
          (PutInvoice(1, id, body, Some(S), TRUE) /\ response'.status = 200)
          => /\ items'[id] = S
             /\ invoices'[id].subtotal = SubtotalOf(S)
             /\ invoices'[id].taxAmount = TaxAmountOf(S, invoices'[id].taxRate)
             /\ invoices'[id].total = SubtotalOf(S) + TaxAmountOf(S, invoices'[id].taxRate)]_vars

----------------------------------------------------------------------------
(* Concurrency claims, checked under SpecConcurrent and SpecWriters *)

(* C13: whatever runs between the steps of a GET /api/invoices/:id and     *)
(* the steps of a POST /api/invoices or a PUT /api/invoices/:id, the items *)
(* of an invoice the GET returns sum to the subtotal it returns.           *)
C13_NoInconsistentRead ==
    (response.route = "GET /api/invoices/:id" /\ response.status = 200) =>
        \A k \in 1..Len(response.invoices) :
            SubtotalOf(response.invoices[k].items) = response.invoices[k].inv.subtotal

(* C14: when the requests on an invoice have all completed, the stored     *)
(* totals belong to the same request as the stored items, as they do after *)
(* the requests have run one after the other in any order.                 *)
C14_NoLostUpdate ==
    (\A r \in Requests : inflight[r] = Idle) =>
        \A i \in DOMAIN invoices :
            /\ invoices[i].subtotal = SubtotalOf(items[i])
            /\ invoices[i].total = SubtotalOf(items[i])

----------------------------------------------------------------------------
(* Status claims, checked under SpecStatus and SpecStatusCall *)

(* C9: updateInvoiceStatus(id, "paid") on an invoice whose paidAt is null  *)
(* sets paidAt; a further updateInvoiceStatus(id, "paid") leaves paidAt as *)
(* the first call set it.                                                  *)
C9_PaidAtSetOnce ==
    [][LET id == response'.id
           first == response.invoices[1].inv
       IN  (/\ response'.route = "updateInvoiceStatus"
            /\ response'.status = 200
            /\ invoices'[id].status = "paid")
           => /\ invoices[id].paidAt = None => invoices'[id].paidAt # None
              /\ (/\ response.route = "updateInvoiceStatus"
                  /\ response.status = 200
                  /\ response.id = id
                  /\ first.status = "paid"
                  /\ first.paidAt = invoices[id].paidAt)
                 => invoices'[id].paidAt = invoices[id].paidAt]_vars

(* C17: updateInvoiceStatus(id, s) with s outside pending, paid, overdue   *)
(* fails with "Invalid invoice status", and a call that fails so leaves    *)
(* every stored invoice and every stored item as it was.                   *)
C17_InvalidStatusRejected ==
    [][/\ \A id \in InvoiceIds, s \in Statuses \ validStatuses :
             UpdateInvoiceStatus(id, s)
                => (response'.status = 500 /\ response'.message = "Invalid invoice status")
       /\ (response'.route = "updateInvoiceStatus"
              /\ response'.message = "Invalid invoice status")
             => (invoices' = invoices /\ items' = items)]_vars

(* updateInvoiceStatus has been called with a status outside the enum on a *)
(* stored invoice.                                                         *)
C17_Witness ==
    /\ response.route = "updateInvoiceStatus"
    /\ response.message = "Invalid invoice status"
    /\ response.id \in DOMAIN invoices
    /\ invoices[response.id].status \in validStatuses

(* C10: a stored invoice whose status is not paid has paidAt = null.       *)
C10_PaidAtOnlyWhenPaid ==
    \A i \in DOMAIN invoices : invoices[i].status # "paid" => invoices[i].paidAt = None

----------------------------------------------------------------------------
(* Reachability from the invoices page, checked under SpecPage *)

(* C28: once the invoices page has sent "mark as paid" for a stored        *)
(* invoice of the caller, the invoice eventually has status paid; once it  *)
(* has sent the delete request, the invoice is eventually no longer        *)
(* stored.                                                                 *)
C28_StatusAndDeleteReachable ==
    \A id \in ListedIds :
        /\ (response.route = "PATCH /api/invoices/:id/status" /\ response.id = id
                /\ id \in DOMAIN invoices)
              ~> (id \in DOMAIN invoices /\ invoices[id].status = "paid")
        /\ (response.route = "DELETE /api/invoices/:id" /\ response.id = id
                /\ id \in DOMAIN invoices)
              ~> (id \notin DOMAIN invoices)


----------------------------------------------------------------------------
(* The browser's session, checked under SpecAuth and SpecRegister *)

(* C29: when no callback of AuthProvider is pending, the user of the       *)
(* AuthContext is null if firebaseUser is null, and otherwise is null or   *)
(* the profile of the identity of firebaseUser.                            *)
C29_AuthContextConsistent ==
    callbacks = <<>> =>
        /\ authContext.firebaseUser = None => authContext.user = None
        /\ (authContext.firebaseUser # None /\ authContext.user # None)
              => authContext.user[1].firebaseUid = authContext.firebaseUser[1]

(* C30: when a register submit has finished, the identity has an account   *)
(* of the identity provider exactly if it has a User profile.              *)
C30_RegistrationAllOrNothing ==
    [][\A identity \in UserIds, delivered \in BOOLEAN :
          handleSubmit(identity, delivered)
          => (identity \in accounts'
                <=> \E u \in DOMAIN users' : users'[u].firebaseUid = identity)]_vars

============================================================================
